---- MODULE Spec2Model ----
(***************************************************************************)
(* Collishi 0.2.0 (Collisions.h): boolean collision predicates between 2D  *)
(* primitives.  Every routine is a pure function of its scalar arguments.  *)
(* The float arguments are modelled by integers: on integer-valued inputs  *)
(* of this size every product, sum and comparison of the source is exact   *)
(* in 32-bit floating point, so integer arithmetic computes what the code  *)
(* computes.                                                               *)
(*                                                                         *)
(* Each predicate has its own specification: Init draws the arguments from *)
(* bounded sets, the single action evaluates the predicate on them and     *)
(* stores the returned boolean.                                            *)
(***************************************************************************)
EXTENDS Integers, FiniteSets, Sequences, TLC

VARIABLES pc, args, result

vars == <<pc, args, result>>

(***************************************************************************)
(* Bounds of the argument sets.                                            *)
(***************************************************************************)
\* coordinates of the first shape range over -MaxCoord..MaxCoord
MaxCoord == 2
\* components of a segment's displacement range over -MaxDelta..MaxDelta
MaxDelta == 2
\* components of a triangle's edge vectors range over -MaxEdge..MaxEdge
MaxEdge == 2
\* origin coordinates of the second shape range over 0..MaxOrigin
MaxOrigin == 1
\* box extents and circle radii range over 0..MaxSize
MaxSize == 2
\* nominators and denominators range over -MaxTerm..MaxTerm
MaxTerm == 7

Coords == (0 - MaxCoord)..MaxCoord
Deltas == (0 - MaxDelta)..MaxDelta
Edges == (0 - MaxEdge)..MaxEdge
Origins == 0..MaxOrigin
Sizes == 0..MaxSize
Terms == (0 - MaxTerm)..MaxTerm

(***************************************************************************)
(* Numeric primitives.                                                     *)
(***************************************************************************)
constexpr_abs(value) == IF value < 0 THEN 0 - value ELSE value

fraction_less_than_zero(nominator, denominator) ==
    IF nominator = 0 THEN FALSE
    ELSE IF (nominator < 0) # (denominator < 0) THEN TRUE
    ELSE FALSE

\* the routine comparing the magnitudes without taking absolute values
fraction_between_zero_and_one_no_abs(nominator, denominator) ==
    IF fraction_less_than_zero(nominator, denominator) THEN FALSE
    ELSE IF nominator > denominator THEN FALSE
    ELSE TRUE

fraction_between_zero_and_one(nominator, denominator) ==
    IF fraction_less_than_zero(nominator, denominator) THEN FALSE
    ELSE IF constexpr_abs(nominator) > constexpr_abs(denominator) THEN FALSE
    ELSE TRUE

\* std::min / std::max of an initializer list, given as a non-empty set
MinOf(S) == CHOOSE m \in S : \A e \in S : m <= e
MaxOf(S) == CHOOSE m \in S : \A e \in S : e <= m

between(value, border_1, border_2) ==
    LET interval_first == MinOf({border_1, border_2})
        interval_second == MaxOf({border_1, border_2})
    IN  IF value < interval_first THEN FALSE
        ELSE IF value > interval_second THEN FALSE
        ELSE TRUE

overlap(interval_1, interval_2) ==
    IF MaxOf(interval_2) < MinOf(interval_1) THEN FALSE
    ELSE IF MaxOf(interval_1) < MinOf(interval_2) THEN FALSE
    ELSE TRUE

sign_square(x) == IF x < 0 THEN (0 - x) * x ELSE x * x

(***************************************************************************)
(* Point predicates.                                                       *)
(***************************************************************************)
collision_point_point(x1, y1, x2, y2) == (x1 = x2 /\ y1 = y2)

\* the routine without its projection range test
collision_point_line_no_range(x1, y1, x2, y2, dx2, dy2) ==
    LET dx12 == x1 - x2
        dy12 == y1 - y2
    IN  IF dx12 * dy2 # dy12 * dx2 THEN FALSE ELSE TRUE

collision_point_line(x1, y1, x2, y2, dx2, dy2) ==
    LET dx12 == x1 - x2
        dy12 == y1 - y2
        projection == dx12 * dx2 + dy12 * dy2
    IN  IF dx12 * dy2 # dy12 * dx2 THEN FALSE
        ELSE IF ~between(projection, 0, dx2 * dx2 + dy2 * dy2) THEN FALSE
        ELSE TRUE

collision_point_box(x1, y1, x2, y2, w2, h2) ==
    IF x1 < x2 THEN FALSE
    ELSE IF y1 < y2 THEN FALSE
    ELSE IF x2 + w2 < x1 THEN FALSE
    ELSE IF y2 + h2 < y1 THEN FALSE
    ELSE TRUE

\* the routine without its final test of u + v
collision_point_triangle_no_sum(x1, y1, x2, y2, sxa2, sya2, sxb2, syb2) ==
    LET dx12 == x1 - x2
        dy12 == y1 - y2
        nominator_u == dx12 * syb2 - dy12 * sxb2
        denominator_u == sxa2 * syb2 - sxb2 * sya2
        nominator_v == dx12 * sya2 - dy12 * sxa2
        denominator_v == 0 - denominator_u
    IN  IF ~fraction_between_zero_and_one(nominator_u, denominator_u) THEN FALSE
        ELSE IF ~fraction_between_zero_and_one(nominator_v, denominator_v) THEN FALSE
        ELSE TRUE

collision_point_triangle(x1, y1, x2, y2, sxa2, sya2, sxb2, syb2) ==
    LET dx12 == x1 - x2
        dy12 == y1 - y2
        nominator_u == dx12 * syb2 - dy12 * sxb2
        denominator_u == sxa2 * syb2 - sxb2 * sya2
        nominator_v == dx12 * sya2 - dy12 * sxa2
        denominator_v == 0 - denominator_u
        nominator_u_v == nominator_u - nominator_v
    IN  IF ~fraction_between_zero_and_one(nominator_u, denominator_u) THEN FALSE
        ELSE IF ~fraction_between_zero_and_one(nominator_v, denominator_v) THEN FALSE
        ELSE IF ~fraction_between_zero_and_one(nominator_u_v, denominator_u) THEN FALSE
        ELSE TRUE

(***************************************************************************)
(* Line predicates.                                                        *)
(***************************************************************************)
collision_line_line(x1, y1, dx1, dy1, x2, y2, dx2, dy2) ==
    LET cross_term == dx2 * dy1 - dy2 * dx1
        y21 == y2 - y1
        x21 == x2 - x1
        projection_2_on_n1 == y21 * dx1 - x21 * dy1
        projection_1_on_n2 == x21 * dy2 - y21 * dx2
    IN  IF cross_term = 0 /\ collision_point_line(x1, y1, x2, y2, dx2, dy2) THEN TRUE
        ELSE IF cross_term = 0 /\ collision_point_line(x2, y2, x1, y1, dx1, dy1) THEN TRUE
        ELSE IF (projection_2_on_n1 < 0) = (projection_2_on_n1 < cross_term) THEN FALSE
        ELSE IF (projection_1_on_n2 < 0) = (projection_1_on_n2 < 0 - cross_term) THEN FALSE
        ELSE TRUE

\* the routine with the start point always taken as the closer end point
collision_line_circle_start_only(x1, y1, dx1, dy1, x2, y2, r2) ==
    LET x21 == x2 - x1
        y21 == y2 - y1
        r2_squared == r2 * r2
        proj_circle_normal == y21 * dx1 - x21 * dy1
        proj_circle_normal_max == r2_squared * (dx1 * dx1 + dy1 * dy1)
        distance_1_2 == x21 * x21 + y21 * y21
        p1 == sign_square(distance_1_2)
        p2 == sign_square(distance_1_2 - dx1 * x21 - dy1 * y21)
        proj_r2_squared == r2_squared * (x21 * x21 + y21 * y21)
    IN  IF ~between(sign_square(proj_circle_normal),
                    0 - proj_circle_normal_max, proj_circle_normal_max) THEN FALSE
        ELSE IF ~overlap({p1, p2}, {0 - proj_r2_squared, proj_r2_squared}) THEN FALSE
        ELSE TRUE

collision_line_circle(x1, y1, dx1, dy1, x2, y2, r2) ==
    LET x21 == x2 - x1
        y21 == y2 - y1
        r2_squared == r2 * r2
        proj_circle_normal == y21 * dx1 - x21 * dy1
        proj_circle_normal_max == r2_squared * (dx1 * dx1 + dy1 * dy1)
        x2d1 == x21 - dx1
        y2d1 == y21 - dy1
        distance_1_2 == x21 * x21 + y21 * y21
        distance_d_2 == x2d1 * x2d1 + y2d1 * y2d1
        p2 == sign_square(distance_1_2 - dx1 * x21 - dy1 * y21)
    IN  IF ~between(sign_square(proj_circle_normal),
                    0 - proj_circle_normal_max, proj_circle_normal_max) THEN FALSE
        ELSE IF distance_1_2 < distance_d_2
             THEN LET p1 == sign_square(distance_1_2)
                      proj_r2_squared == r2_squared * (x21 * x21 + y21 * y21)
                  IN  IF ~overlap({p1, p2}, {0 - proj_r2_squared, proj_r2_squared})
                      THEN FALSE ELSE TRUE
             ELSE LET p1 == sign_square(distance_d_2)
                      proj_r2_squared == r2_squared * (x2d1 * x2d1 + y2d1 * y2d1)
                  IN  IF ~overlap({p1, p2}, {0 - proj_r2_squared, proj_r2_squared})
                      THEN FALSE ELSE TRUE

collision_line_box(x1, y1, dx1, dy1, x2, y2, w2, h2) ==
    LET nominator_x_neg == x2 - x1
        nominator_x_pos == x2 + w2 - x1
        nominator_y_neg == y2 - y1
        nominator_y_pos == y2 + h2 - y1
        nom_x_neg_dy == nominator_x_neg * dy1
        nom_x_pos_dy == nominator_x_pos * dy1
        nom_y_neg_dx == nominator_y_neg * dx1
        nom_y_pos_dx == nominator_y_pos * dx1
    IN  IF collision_point_box(x1, y1, x2, y2, w2, h2) THEN TRUE
        ELSE IF collision_point_box(x1 + dx1, y1 + dy1, x2, y2, w2, h2) THEN TRUE
        ELSE IF /\ nom_x_neg_dy >= nom_y_neg_dx
                /\ nom_x_neg_dy <= nom_y_pos_dx
                /\ fraction_between_zero_and_one(nominator_x_neg, dx1) THEN TRUE
        ELSE IF /\ nom_x_pos_dy >= nom_y_neg_dx
                /\ nom_x_pos_dy <= nom_y_pos_dx
                /\ fraction_between_zero_and_one(nominator_x_pos, dx1) THEN TRUE
        ELSE IF /\ nom_y_neg_dx >= nom_x_neg_dy
                /\ nom_y_neg_dx <= nom_x_pos_dy
                /\ fraction_between_zero_and_one(nominator_y_neg, dy1) THEN TRUE
        ELSE IF /\ nom_y_pos_dx >= nom_x_neg_dy
                /\ nom_y_pos_dx <= nom_x_pos_dy
                /\ fraction_between_zero_and_one(nominator_y_pos, dy1) THEN TRUE
        ELSE FALSE

\* static_cast<short> of a comparison
AsShort(b) == IF b THEN 1 ELSE 0

collision_line_triangle(x1, y1, dx1, dy1, x2, y2, sxa2, sya2, sxb2, syb2) ==
    LET x21 == x2 - x1
        y21 == y2 - y1
        xa1 == x21 + sxa2
        ya1 == y21 + sya2
        xb1 == x21 + sxb2
        yb1 == y21 + syb2
        projection_2_on_n1 == y21 * dx1 - x21 * dy1
        projection_a_on_n1 == ya1 * dx1 - xa1 * dy1
        projection_b_on_n1 == yb1 * dx1 - xb1 * dy1
        p2_n1_negative == AsShort(projection_2_on_n1 < 0)
        pa_n1_negative == AsShort(projection_a_on_n1 < 0)
        pb_n1_negative == AsShort(projection_b_on_n1 < 0)
        projection_1_on_na == x21 * sya2 - y21 * sxa2
        projection_d_on_na == dy1 * sxa2 - dx1 * sya2
        projection_b_on_na == syb2 * sxa2 - sxb2 * sya2
        projection_1_on_nb == x21 * syb2 - y21 * sxb2
        projection_d_on_nb == dy1 * sxb2 - dx1 * syb2
        projection_a_on_nb == 0 - projection_b_on_na
        sxc2 == sxb2 - sxa2
        syc2 == syb2 - sya2
        projection_1_on_nc == xa1 * syc2 - ya1 * sxc2
        projection_d_on_nc == dy1 * sxc2 - dx1 * syc2
        projection_2_on_nc == projection_b_on_na
    IN  IF p2_n1_negative + pa_n1_negative + pb_n1_negative = 3 THEN FALSE
        ELSE IF ~overlap({projection_1_on_na, projection_1_on_na + projection_d_on_na},
                         {0, projection_b_on_na}) THEN FALSE
        ELSE IF ~overlap({projection_1_on_nb, projection_1_on_nb + projection_d_on_nb},
                         {0, projection_a_on_nb}) THEN FALSE
        ELSE IF ~overlap({projection_1_on_nc, projection_1_on_nc + projection_d_on_nc},
                         {0, projection_2_on_nc}) THEN FALSE
        ELSE TRUE

(***************************************************************************)
(* Circle predicates.  The candidate vertex is kept as a record            *)
(* [min_dist, vx, vy] that each "if (... < min_dist)" statement updates.   *)
(***************************************************************************)
Closer(dist, x, y, best) ==
    IF dist < best.min_dist THEN [min_dist |-> dist, vx |-> x, vy |-> y] ELSE best

\* the routine without its closest-vertex axis test
collision_circle_box_axes_only(x1, y1, r1, x2, y2, w2, h2) ==
    LET dxp == x2 + w2 - x1
        dyp == y2 + h2 - y1
        dxm == x2 - x1
        dym == y2 - y1
    IN  IF ~overlap({dxm, dxp}, {0 - r1, r1}) THEN FALSE
        ELSE IF ~overlap({dym, dyp}, {0 - r1, r1}) THEN FALSE
        ELSE TRUE

collision_circle_box(x1, y1, r1, x2, y2, w2, h2) ==
    LET dxp == x2 + w2 - x1
        dyp == y2 + h2 - y1
        dxm == x2 - x1
        dym == y2 - y1
        dxp2 == dxp * dxp
        dxm2 == dxm * dxm
        dyp2 == dyp * dyp
        dym2 == dym * dym
        dxp2yp2 == dxp2 + dyp2
        dyp2xm2 == dyp2 + dxm2
        dxm2ym2 == dxm2 + dym2
        dym2xp2 == dym2 + dxp2
        v0 == [min_dist |-> dxp2yp2, vx |-> dxp, vy |-> dyp]
        v1 == Closer(dyp2xm2, dxm, dyp, v0)
        v2 == Closer(dxm2ym2, dxm, dym, v1)
        v3 == Closer(dym2xp2, dxp, dym, v2)
        vx == v3.vx
        vy == v3.vy
        proj_v_pp == sign_square(dxp * vx + dyp * vy)
        proj_v_pm == sign_square(dxp * vx + dym * vy)
        proj_v_mp == sign_square(dxm * vx + dyp * vy)
        proj_v_mm == sign_square(dxm * vx + dym * vy)
        proj_r1_squared == r1 * r1 * (vx * vx + vy * vy)
    IN  IF ~overlap({dxm, dxp}, {0 - r1, r1}) THEN FALSE
        ELSE IF ~overlap({dym, dyp}, {0 - r1, r1}) THEN FALSE
        ELSE IF ~overlap({proj_v_pp, proj_v_pm, proj_v_mp, proj_v_mm},
                         {0 - proj_r1_squared, proj_r1_squared}) THEN FALSE
        ELSE TRUE

collision_circle_triangle(x1, y1, r1, x2, y2, sxa2, sya2, sxb2, syb2) ==
    LET dx == x1 - x2
        dy == y1 - y2
        r1_squared == r1 * r1
        cross_term == sxa2 * syb2 - sxb2 * sya2
        proj_x1_a == dy * sxa2 - dx * sya2
        proj_r1_a_squared == r1_squared * (sxa2 * sxa2 + sya2 * sya2)
        proj_x1_b == dy * sxb2 - dx * syb2
        proj_r1_b_squared == r1_squared * (sxb2 * sxb2 + syb2 * syb2)
        sxc2 == sxb2 - sxa2
        syc2 == syb2 - sya2
        proj_x1_c == dy * (sxb2 - sxa2) - dx * (syb2 - sya2)
        proj_r1_c_squared == r1_squared * (sxc2 * sxc2 + syc2 * syc2)
        dxa == dx - sxa2
        dya == dy - sya2
        dxb == dx - sxb2
        dyb == dy - syb2
        da_norm == dxa * dxa + dya * dya
        db_norm == dxb * dxb + dyb * dyb
        v0 == [min_dist |-> dx * dx + dy * dy, vx |-> 0 - dx, vy |-> 0 - dy]
        v1 == Closer(da_norm, 0 - dxa, 0 - dya, v0)
        v2 == Closer(db_norm, 0 - dxb, 0 - dyb, v1)
        vx == v2.vx
        vy == v2.vy
        proj_2_0_v == sign_square((0 - dx) * vx - dy * vy)
        proj_2_a_v == sign_square((0 - dxa) * vx - dya * vy)
        proj_2_b_v == sign_square((0 - dxb) * vx - dyb * vy)
        proj_r_v_squared == r1_squared * v2.min_dist
    IN  IF ~overlap({sign_square(0 - proj_x1_a), sign_square(cross_term - proj_x1_a)},
                    {0 - proj_r1_a_squared, proj_r1_a_squared}) THEN FALSE
        ELSE IF ~overlap({sign_square(0 - proj_x1_b), sign_square(0 - cross_term - proj_x1_b)},
                         {0 - proj_r1_b_squared, proj_r1_b_squared}) THEN FALSE
        ELSE IF ~overlap({sign_square(0 - proj_x1_c), sign_square(proj_x1_c)},
                         {0 - proj_r1_c_squared, proj_r1_c_squared}) THEN FALSE
        ELSE IF ~overlap({proj_2_0_v, proj_2_a_v, proj_2_b_v},
                         {0 - proj_r_v_squared, proj_r_v_squared}) THEN FALSE
        ELSE TRUE

(***************************************************************************)
(* Argument sets of the calls.                                             *)
(***************************************************************************)
PointLineArgs ==
    [x1 : Coords, y1 : Coords, x2 : Origins, y2 : Origins, dx2 : Deltas, dy2 : Deltas]

PointTriangleArgs ==
    [x1 : Coords, y1 : Coords, x2 : Origins, y2 : Origins,
     sxa2 : Edges, sya2 : Edges, sxb2 : Edges, syb2 : Edges]

LineLineArgs ==
    [x1 : Coords, y1 : Coords, dx1 : Deltas, dy1 : Deltas,
     x2 : Origins, y2 : Origins, dx2 : Deltas, dy2 : Deltas]

LineCircleArgs ==
    [x1 : Coords, y1 : Coords, dx1 : Deltas, dy1 : Deltas,
     x2 : Origins, y2 : Origins, r2 : Sizes]

LineBoxArgs ==
    [x1 : Coords, y1 : Coords, dx1 : Deltas, dy1 : Deltas,
     x2 : Origins, y2 : Origins, w2 : Sizes, h2 : Sizes]

LineTriangleArgs ==
    [x1 : Coords, y1 : Coords, dx1 : Deltas, dy1 : Deltas, x2 : Origins, y2 : Origins,
     sxa2 : Edges, sya2 : Edges, sxb2 : Edges, syb2 : Edges]

CircleBoxArgs ==
    [x1 : Coords, y1 : Coords, r1 : Sizes, x2 : Origins, y2 : Origins,
     w2 : Sizes, h2 : Sizes]

CircleTriangleArgs ==
    [x1 : Coords, y1 : Coords, r1 : Sizes, x2 : Origins, y2 : Origins,
     sxa2 : Edges, sya2 : Edges, sxb2 : Edges, syb2 : Edges]

(***************************************************************************)
(* One call of a predicate: the caller holds the arguments (pc = "ready"), *)
(* the call returns the boolean (pc = "done").                             *)
(***************************************************************************)
InitWith(Args) == pc = "ready" /\ args \in Args /\ result = FALSE

Return(value) == pc = "ready" /\ pc' = "done" /\ result' = value /\ UNCHANGED args

CallPointLine ==
    Return(collision_point_line(args.x1, args.y1, args.x2, args.y2, args.dx2, args.dy2))

CallPointTriangle ==
    Return(collision_point_triangle(args.x1, args.y1, args.x2, args.y2,
                                    args.sxa2, args.sya2, args.sxb2, args.syb2))

CallLineLine ==
    Return(collision_line_line(args.x1, args.y1, args.dx1, args.dy1,
                               args.x2, args.y2, args.dx2, args.dy2))

CallLineCircle ==
    Return(collision_line_circle(args.x1, args.y1, args.dx1, args.dy1,
                                 args.x2, args.y2, args.r2))

CallLineBox ==
    Return(collision_line_box(args.x1, args.y1, args.dx1, args.dy1,
                              args.x2, args.y2, args.w2, args.h2))

CallLineTriangle ==
    Return(collision_line_triangle(args.x1, args.y1, args.dx1, args.dy1, args.x2, args.y2,
                                   args.sxa2, args.sya2, args.sxb2, args.syb2))

CallCircleBox ==
    Return(collision_circle_box(args.x1, args.y1, args.r1,
                                args.x2, args.y2, args.w2, args.h2))

CallCircleTriangle ==
    Return(collision_circle_triangle(args.x1, args.y1, args.r1, args.x2, args.y2,
                                     args.sxa2, args.sya2, args.sxb2, args.syb2))

SpecPointLine == InitWith(PointLineArgs) /\ [][CallPointLine]_vars
SpecPointTriangle == InitWith(PointTriangleArgs) /\ [][CallPointTriangle]_vars
SpecLineLine == InitWith(LineLineArgs) /\ [][CallLineLine]_vars
SpecLineCircle == InitWith(LineCircleArgs) /\ [][CallLineCircle]_vars
SpecLineBox == InitWith(LineBoxArgs) /\ [][CallLineBox]_vars
SpecLineTriangle == InitWith(LineTriangleArgs) /\ [][CallLineTriangle]_vars
SpecCircleBox == InitWith(CircleBoxArgs) /\ [][CallCircleBox]_vars
SpecCircleTriangle == InitWith(CircleTriangleArgs) /\ [][CallCircleTriangle]_vars

(***************************************************************************)
(* Geometry the predicates are compared with.  Points of a segment are     *)
(* origin + (k/n) * displacement and are handled scaled by n, so that all  *)
(* arithmetic stays in the integers.                                       *)
(***************************************************************************)
Cross(ax, ay, bx, by) == ax * by - ay * bx
Dot(ax, ay, bx, by) == ax * bx + ay * by
Abs(v) == IF v < 0 THEN 0 - v ELSE v
Clamp(v, lo, hi) == IF v < lo THEN lo ELSE IF v > hi THEN hi ELSE v

\* (x, y) is a point of the closed segment from (ox, oy) to (ox+dx, oy+dy):
\* (x, y) = origin + (k/n) * displacement with 0 <= k <= n.  For an integer
\* point, k/n is a multiple of 1/|dx| or of 1/|dy|.
OnClosedSegment(x, y, ox, oy, dx, dy) ==
    \E n \in {1, Abs(dx), Abs(dy)} \ {0} : \E k \in 0..n :
        /\ n * (x - ox) = k * dx
        /\ n * (y - oy) = k * dy

\* the point (px/n, py/n) lies in the closed box
ScaledInBox(px, py, n, x2, y2, w2, h2) ==
    /\ n * x2 <= px /\ px <= n * (x2 + w2)
    /\ n * y2 <= py /\ py <= n * (y2 + h2)

\* The parameters t in [0,1] whose point lies in the box form a closed
\* interval; when it is not empty its least element is 0 or a crossing of a
\* line x = const or y = const, a multiple of 1/|dx| or of 1/|dy|.
SegmentMeetsBox(x1, y1, dx, dy, x2, y2, w2, h2) ==
    \E n \in {1, Abs(dx), Abs(dy)} \ {0} : \E k \in 0..n :
        ScaledInBox(n * x1 + k * dx, n * y1 + k * dy, n, x2, y2, w2, h2)

\* the point (px/n, py/n) = base + u*edgeA + v*edgeB has u >= 0, v >= 0 and
\* u + v <= 1, where u = U/(n*D), v = V/(n*D) by Cramer's rule (D # 0);
\* each inequality is multiplied by n*D*D > 0
ScaledInTriangle(px, py, n, x2, y2, sxa, sya, sxb, syb) ==
    LET D == Cross(sxa, sya, sxb, syb)
        U == Cross(px - n * x2, py - n * y2, sxb, syb)
        V == Cross(sxa, sya, px - n * x2, py - n * y2)
    IN  U * D >= 0 /\ V * D >= 0 /\ (U + V) * D <= n * D * D

InTriangle(x, y, x2, y2, sxa, sya, sxb, syb) ==
    ScaledInTriangle(x, y, 1, x2, y2, sxa, sya, sxb, syb)

\* As for the box: the least parameter of a common point is 0 or a crossing
\* of the line through an edge e, a multiple of 1/|Cross(e, d)|.
SegmentMeetsTriangle(x1, y1, dx, dy, x2, y2, sxa, sya, sxb, syb) ==
    \E n \in {1, Abs(Cross(sxa, sya, dx, dy)), Abs(Cross(sxb, syb, dx, dy)),
              Abs(Cross(sxb - sxa, syb - sya, dx, dy))} \ {0} :
        \E k \in 0..n :
            ScaledInTriangle(n * x1 + k * dx, n * y1 + k * dy, n,
                             x2, y2, sxa, sya, sxb, syb)

\* endpoints of each segment on opposite closed sides of the other's line
StraddleEachOther(x1, y1, dx1, dy1, x2, y2, dx2, dy2) ==
    /\ Cross(dx1, dy1, x2 - x1, y2 - y1)
         * Cross(dx1, dy1, x2 + dx2 - x1, y2 + dy2 - y1) <= 0
    /\ Cross(dx2, dy2, x1 - x2, y1 - y2)
         * Cross(dx2, dy2, x1 + dx1 - x2, y1 + dy1 - y2) <= 0

\* Two closed segments share a point.  Not parallel: the common point of
\* the two lines has parameters s/c and t/c (Cramer's rule), both in [0,1].
\* Parallel: a common point exists iff an end point of one segment lies on
\* the other segment.
SegmentsShare(x1, y1, dx1, dy1, x2, y2, dx2, dy2) ==
    LET c == Cross(dx1, dy1, dx2, dy2)
        s == Cross(x2 - x1, y2 - y1, dx2, dy2)
        t == Cross(x2 - x1, y2 - y1, dx1, dy1)
    IN  IF c # 0
        THEN s * c >= 0 /\ s * c <= c * c /\ t * c >= 0 /\ t * c <= c * c
        ELSE \/ OnClosedSegment(x1, y1, x2, y2, dx2, dy2)
             \/ OnClosedSegment(x1 + dx1, y1 + dy1, x2, y2, dx2, dy2)
             \/ OnClosedSegment(x2, y2, x1, y1, dx1, dy1)
             \/ OnClosedSegment(x2 + dx2, y2 + dy2, x1, y1, dx1, dy1)

\* squared distance from (px, py) to the nearest point of the closed segment
\* is at most rr: the nearest point is the foot of the perpendicular when
\* it falls inside the segment (distance^2 = Cross^2 / |d|^2), otherwise it
\* is the nearer end point
NearSegment(px, py, ox, oy, dx, dy, rr) ==
    LET wx == px - ox
        wy == py - oy
        len == Dot(dx, dy, dx, dy)
        along == Dot(wx, wy, dx, dy)
    IN  IF along <= 0 THEN Dot(wx, wy, wx, wy) <= rr
        ELSE IF along >= len THEN Dot(wx - dx, wy - dy, wx - dx, wy - dy) <= rr
        ELSE Cross(dx, dy, wx, wy) * Cross(dx, dy, wx, wy) <= rr * len

\* squared distance from (px, py) to the nearest point of the closed box
BoxDistanceSquared(px, py, x2, y2, w2, h2) ==
    LET nx == Clamp(px, x2, x2 + w2)
        ny == Clamp(py, y2, y2 + h2)
    IN  (px - nx) * (px - nx) + (py - ny) * (py - ny)

\* squared distance from (px, py) to the nearest point of the closed
\* triangle is at most rr
NearTriangle(px, py, rr, x2, y2, sxa, sya, sxb, syb) ==
    \/ InTriangle(px, py, x2, y2, sxa, sya, sxb, syb)
    \/ NearSegment(px, py, x2, y2, sxa, sya, rr)
    \/ NearSegment(px, py, x2, y2, sxb, syb, rr)
    \/ NearSegment(px, py, x2 + sxa, y2 + sya, sxb - sxa, syb - sya, rr)

NonDegenerate(a) == Cross(a.sxa2, a.sya2, a.sxb2, a.syb2) # 0

(***************************************************************************)
(* Claims.                                                                 *)
(***************************************************************************)

\* C1: collision_line_box returns true iff the closed segment and the closed
\* box share at least one point, for every segment and every box with
\* non-negative extents.
C1_LineBoxIffShare ==
    pc = "done" =>
        (result <=> SegmentMeetsBox(args.x1, args.y1, args.dx1, args.dy1,
                                    args.x2, args.y2, args.w2, args.h2))

\* C2: collision_circle_triangle returns true iff the squared distance from
\* the circle centre to the nearest point of the closed triangle is at most
\* r1*r1, for every non-degenerate triangle.
C2_CircleTriangleIffNear ==
    (pc = "done" /\ NonDegenerate(args)) =>
        (result <=> NearTriangle(args.x1, args.y1, args.r1 * args.r1, args.x2, args.y2,
                                 args.sxa2, args.sya2, args.sxb2, args.syb2))

\* C3: collision_line_triangle returns true iff the closed segment and the
\* closed triangle share at least one point, for every segment and every
\* non-degenerate triangle of either orientation.
C3_LineTriangleIffShare ==
    (pc = "done" /\ NonDegenerate(args)) =>
        (result <=> SegmentMeetsTriangle(args.x1, args.y1, args.dx1, args.dy1,
                                         args.x2, args.y2,
                                         args.sxa2, args.sya2, args.sxb2, args.syb2))

\* C4: for two segments whose directions are not parallel,
\* collision_line_line returns true iff the closed segments share a point,
\* i.e. iff the end points of each segment lie on opposite closed sides of
\* (or on) the other segment's line, touching cases included.
C4_CrossingLinesIffShare ==
    (pc = "done" /\ args.dx2 * args.dy1 - args.dy2 * args.dx1 # 0) =>
        /\ result <=> SegmentsShare(args.x1, args.y1, args.dx1, args.dy1,
                                    args.x2, args.y2, args.dx2, args.dy2)
        /\ result <=> StraddleEachOther(args.x1, args.y1, args.dx1, args.dy1,
                                        args.x2, args.y2, args.dx2, args.dy2)

\* C5: for two segments of non-zero length whose directions have zero cross
\* product, collision_line_line returns true whenever the closed segments
\* share at least one point.
C5_ParallelLinesShareDetected ==
    (/\ pc = "done"
     /\ args.dx2 * args.dy1 - args.dy2 * args.dx1 = 0
     /\ <<args.dx1, args.dy1>> # <<0, 0>>
     /\ <<args.dx2, args.dy2>> # <<0, 0>>
     /\ SegmentsShare(args.x1, args.y1, args.dx1, args.dy1,
                      args.x2, args.y2, args.dx2, args.dy2))
        => result

\* C6: for a segment with zero displacement, collision_point_line equals
\* collision_point_point against the segment's origin.
C6_DegenerateLineIsPoint ==
    (pc = "done" /\ args.dx2 = 0 /\ args.dy2 = 0) =>
        (result <=> collision_point_point(args.x1, args.y1, args.x2, args.y2))

\* C7: collision_point_triangle returns true iff the point, written as
\* base + u*edgeA + v*edgeB, has u >= 0, v >= 0 and u + v <= 1, for every
\* non-degenerate triangle of either orientation.
C7_PointTriangleIffInside ==
    (pc = "done" /\ NonDegenerate(args)) =>
        (result <=> InTriangle(args.x1, args.y1, args.x2, args.y2,
                               args.sxa2, args.sya2, args.sxb2, args.syb2))

\* C7 witness: a triangle with negative determinant and a point strictly
\* inside the strip 0 <= u, v <= 1 but beyond the edge A-B is rejected
C7_Witness ==
    /\ pc = "done" /\ ~result
    /\ Cross(args.sxa2, args.sya2, args.sxb2, args.syb2) < 0
    /\ collision_point_triangle_no_sum(args.x1, args.y1, args.x2, args.y2,
                                       args.sxa2, args.sya2, args.sxb2, args.syb2)

\* C8: collision_circle_box returns true iff the squared distance from the
\* circle centre to the nearest point of the closed box is at most r1*r1,
\* for every r1 >= 0, w2 >= 0, h2 >= 0.
C8_CircleBoxIffNear ==
    pc = "done" =>
        (result <=> BoxDistanceSquared(args.x1, args.y1, args.x2, args.y2,
                                       args.w2, args.h2) <= args.r1 * args.r1)

\* C8 witness: a centre diagonally outside a corner of a box of positive
\* extents, whose circle passes both cardinal axis tests and is still
\* reported as not colliding
C8_Witness ==
    /\ pc = "done" /\ ~result
    /\ args.r1 > 0 /\ args.w2 > 0 /\ args.h2 > 0
    /\ args.x1 < args.x2 /\ args.y1 < args.y2
    /\ collision_circle_box_axes_only(args.x1, args.y1, args.r1,
                                      args.x2, args.y2, args.w2, args.h2)

\* C9: collision_line_circle returns true iff the squared distance from the
\* circle centre to the nearest point of the closed segment is at most
\* r2*r2, for every segment and every r2 >= 0.
C9_LineCircleIffNear ==
    pc = "done" =>
        (result <=> NearSegment(args.x2, args.y2, args.x1, args.y1,
                                args.dx1, args.dy1, args.r2 * args.r2))

\* C9 witness: the nearest point of a segment of non-zero length is its end
\* point, the circle reaches the segment's line but not the segment
C9_Witness ==
    /\ pc = "done" /\ ~result
    /\ <<args.dx1, args.dy1>> # <<0, 0>> /\ args.r2 > 0
    /\ Dot(args.x2 - args.x1, args.y2 - args.y1, args.dx1, args.dy1)
         > Dot(args.dx1, args.dy1, args.dx1, args.dy1)
    /\ collision_line_circle_start_only(args.x1, args.y1, args.dx1, args.dy1,
                                        args.x2, args.y2, args.r2)

\* C10: for a segment of non-zero length, collision_point_line returns true
\* iff the point lies on the closed segment, both end points included: the
\* cross product of (point - origin) with the displacement is zero and their
\* dot product lies in [0, dx2*dx2 + dy2*dy2].
C10_PointLineIffOnSegment ==
    (pc = "done" /\ <<args.dx2, args.dy2>> # <<0, 0>>) =>
        /\ result <=> OnClosedSegment(args.x1, args.y1, args.x2, args.y2,
                                      args.dx2, args.dy2)
        /\ result <=>
             /\ Cross(args.x1 - args.x2, args.y1 - args.y2, args.dx2, args.dy2) = 0
             /\ Dot(args.x1 - args.x2, args.y1 - args.y2, args.dx2, args.dy2) >= 0
             /\ Dot(args.x1 - args.x2, args.y1 - args.y2, args.dx2, args.dy2)
                  <= Dot(args.dx2, args.dy2, args.dx2, args.dy2)

\* C10 witness: the point is the far end point of a segment of non-zero
\* length and is reported as colliding
C10_Witness ==
    /\ pc = "done" /\ result
    /\ <<args.dx2, args.dy2>> # <<0, 0>>
    /\ args.x1 = args.x2 + args.dx2 /\ args.y1 = args.y2 + args.dy2

(***************************************************************************)
(* Box/box.                                                                *)
(***************************************************************************)
\* the routine without its test of the first box's right side
collision_box_box_no_right(x1, y1, w1, h1, x2, y2, w2, h2) ==
    IF y1 + h1 < y2 THEN FALSE
    ELSE IF x2 + w2 < x1 THEN FALSE
    ELSE IF y2 + h2 < y1 THEN FALSE
    ELSE TRUE

collision_box_box(x1, y1, w1, h1, x2, y2, w2, h2) ==
    IF x1 + w1 < x2 THEN FALSE
    ELSE IF y1 + h1 < y2 THEN FALSE
    ELSE IF x2 + w2 < x1 THEN FALSE
    ELSE IF y2 + h2 < y1 THEN FALSE
    ELSE TRUE

BoxBoxArgs ==
    [x1 : Coords, y1 : Coords, w1 : Sizes, h1 : Sizes,
     x2 : Origins, y2 : Origins, w2 : Sizes, h2 : Sizes]

CallBoxBox ==
    Return(collision_box_box(args.x1, args.y1, args.w1, args.h1,
                             args.x2, args.y2, args.w2, args.h2))

SpecBoxBox == InitWith(BoxBoxArgs) /\ [][CallBoxBox]_vars

\* Two closed boxes with integer corners share a point iff they share a
\* point with integer coordinates: their intersection is a box whose
\* corners are corners of the two boxes.
BoxesShare(x1, y1, w1, h1, x2, y2, w2, h2) ==
    \E px \in x1..(x1 + w1), py \in y1..(y1 + h1) :
        ScaledInBox(px, py, 1, x2, y2, w2, h2)

\* C11: collision_box_box returns true iff the two closed rectangles share
\* at least one point (touching edges or corners count), for all boxes with
\* non-negative extents; a box always collides with itself.
C11_BoxBoxIffShare ==
    pc = "done" =>
        /\ result <=> BoxesShare(args.x1, args.y1, args.w1, args.h1,
                                 args.x2, args.y2, args.w2, args.h2)
        /\ (/\ args.x1 = args.x2 /\ args.y1 = args.y2
            /\ args.w1 = args.w2 /\ args.h1 = args.h2) => result

\* C11 witness: two boxes of positive extents that touch in exactly one
\* corner are reported as colliding
C11_Witness ==
    /\ pc = "done" /\ result
    /\ args.w1 > 0 /\ args.h1 > 0 /\ args.w2 > 0 /\ args.h2 > 0
    /\ args.x1 + args.w1 = args.x2 /\ args.y1 + args.h1 = args.y2

(***************************************************************************)
(* The fraction test on its own.                                           *)
(***************************************************************************)
FractionArgs == [nominator : Terms, denominator : Terms]

CallFractionBetweenZeroAndOne ==
    Return(fraction_between_zero_and_one(args.nominator, args.denominator))

SpecFraction == InitWith(FractionArgs) /\ [][CallFractionBetweenZeroAndOne]_vars

\* 0 <= n/d <= 1 for d # 0, each inequality multiplied by d*d > 0
QuotientInUnitInterval(n, d) == n * d >= 0 /\ n * d <= d * d

\* C12: fraction_between_zero_and_one(n, d) returns true iff 0 <= n/d <= 1
\* for every n and every d # 0 (equivalently: n = 0, or n and d have the
\* same sign and |n| <= |d|); for d = 0 it returns true exactly when n = 0.
C12_FractionIffInUnitInterval ==
    pc = "done" =>
        LET n == args.nominator
            d == args.denominator
        IN  /\ d # 0 => (result <=> QuotientInUnitInterval(n, d))
            /\ d # 0 => (result <=> \/ n = 0
                                    \/ /\ (n < 0) = (d < 0)
                                       /\ Abs(n) <= Abs(d))
            /\ d = 0 => (result <=> n = 0)

\* C12 witness: a negative nominator over a negative denominator of larger
\* magnitude is accepted
C12_Witness ==
    /\ pc = "done" /\ result
    /\ args.nominator < 0 /\ args.denominator < args.nominator

(***************************************************************************)
(* The four line predicates together: the caller holds the arguments of    *)
(* one of them, recognised by the fields of the second shape, and calls    *)
(* that predicate.                                                         *)
(***************************************************************************)
LinePredicateArgs == LineBoxArgs \cup LineTriangleArgs \cup LineCircleArgs \cup LineLineArgs

HoldsLineBoxArgs == "w2" \in DOMAIN args
HoldsLineTriangleArgs == "dx1" \in DOMAIN args /\ "sxa2" \in DOMAIN args
HoldsLineCircleArgs == "dx1" \in DOMAIN args /\ "r2" \in DOMAIN args
HoldsLineLineArgs == "dx1" \in DOMAIN args /\ "dx2" \in DOMAIN args

LineBoxOfSegment == HoldsLineBoxArgs /\ CallLineBox
LineTriangleOfSegment == HoldsLineTriangleArgs /\ CallLineTriangle
LineCircleOfSegment == HoldsLineCircleArgs /\ CallLineCircle
LineLineOfSegments == HoldsLineLineArgs /\ CallLineLine

NextLinePredicates ==
    \/ LineBoxOfSegment
    \/ LineTriangleOfSegment
    \/ LineCircleOfSegment
    \/ LineLineOfSegments

SpecLinePredicates == InitWith(LinePredicateArgs) /\ [][NextLinePredicates]_vars

\* the same segment described from its other end
ReverseFirst(a) ==
    [a EXCEPT !.x1 = a.x1 + a.dx1, !.y1 = a.y1 + a.dy1,
              !.dx1 = 0 - a.dx1, !.dy1 = 0 - a.dy1]

ReverseSecond(a) ==
    [a EXCEPT !.x2 = a.x2 + a.dx2, !.y2 = a.y2 + a.dy2,
              !.dx2 = 0 - a.dx2, !.dy2 = 0 - a.dy2]

LineBoxOn(a) ==
    collision_line_box(a.x1, a.y1, a.dx1, a.dy1, a.x2, a.y2, a.w2, a.h2)

LineTriangleOn(a) ==
    collision_line_triangle(a.x1, a.y1, a.dx1, a.dy1, a.x2, a.y2,
                            a.sxa2, a.sya2, a.sxb2, a.syb2)

LineCircleOn(a) ==
    collision_line_circle(a.x1, a.y1, a.dx1, a.dy1, a.x2, a.y2, a.r2)

LineLineOn(a) ==
    collision_line_line(a.x1, a.y1, a.dx1, a.dy1, a.x2, a.y2, a.dx2, a.dy2)

\* C13: reversing a segment's direction does not change any line
\* predicate's result: collision_line_box, collision_line_triangle,
\* collision_line_circle and collision_line_line (in either argument
\* position) give the same boolean for (x, y, dx, dy) as for
\* (x+dx, y+dy, -dx, -dy).
C13_ReversalKeepsResult ==
    pc = "done" =>
        /\ HoldsLineBoxArgs => result = LineBoxOn(ReverseFirst(args))
        /\ (HoldsLineTriangleArgs /\ NonDegenerate(args))
              => result = LineTriangleOn(ReverseFirst(args))
        /\ HoldsLineCircleArgs => result = LineCircleOn(ReverseFirst(args))
        /\ HoldsLineLineArgs =>
              /\ result = LineLineOn(ReverseFirst(args))
              /\ result = LineLineOn(ReverseSecond(args))

====
